---- MODULE Spec2Model ----
(***************************************************************************)
(* Variable-length array records of hdf5-types (src/hdf5-types/src/array.rs)*)
(* VarLenArray<T>      : owning (len, ptr) record, frees its buffer on Drop *)
(* LeakyVarLenArray<T> : bit-copyable (len, ptr) record, explicit drop()    *)
(* The heap is the foreign allocator's address space; address 0 is null.    *)
(***************************************************************************)
EXTENDS Integers, Sequences, FiniteSets, TLC

\* ---------------------------------------------------------------- bounds
MaxPtr == 2        \* addresses the allocator can hand out: 1..MaxPtr
MaxLen == 2        \* longest source sequence
NumVla == 2        \* VarLenArray variables of the program
NumLk  == 2        \* LeakyVarLenArray variables of the program
MaxInner == 1      \* longest array held inside a nested record

\* ---------------------------------------------------------------- constants
NULL == 0          \* ptr::null() / ptr::null_mut()

Ptrs   == 1..MaxPtr
VlaIds == 1..NumVla
LkIds  == 1..NumLk

\* Element types T of VarLenArray<T> (T: Copy): u16 and the zero-sized ().
ElemTypes == {"u16", "unit"}

\* mem::size_of::<T>()
SizeOf(ty) == IF ty = "unit" THEN 0 ELSE 2

\* Element kinds T of LeakyVarLenArray<T>:
\*   "i32"    plain data
\*   "leaky"  LeakyVarLenArray<i32>  (derive(Copy, Clone), no Drop impl)
\*   "owning" VarLenArray<u16>       (impl Drop)

\* std::mem::needs_drop::<T>(): true only for a type with drop glue.
\* LeakyVarLenArray is Copy, so it has none; its drop() is an inherent method.
NeedsDrop(kind) == kind = "owning"

\* All sequences over S of length 0..n
SeqsUpTo(S, n) == UNION {[1..k -> S] : k \in 0..n}

\* The values of the plain element type that sources are drawn from
Vals == {1, 2}

\* The borrowed source slices of element type ty
Sources(ty) == IF ty = "unit" THEN SeqsUpTo({0}, MaxLen) ELSE SeqsUpTo(Vals, MaxLen)

\* The borrowed source slices of i32 for a LeakyVarLenArray<i32>
LkSources == SeqsUpTo({1}, MaxLen)

VARIABLES
    heap,      \* address -> [st, data, elems, frees]
    vla,       \* VarLenArray variable -> [st, ty, len, ptr]
    lk,        \* LeakyVarLenArray variable -> [st, kind, len, ptr, drops]
    lastOp,    \* the operation that ran last and the record it ran on
    trace,     \* what the last operation did, in program order
    status     \* "run", or how the process ended

vars == <<heap, vla, lk, lastOp, trace, status>>

\* ---------------------------------------------------------------- heap
EmptyBuf == [st |-> "unalloc", data |-> <<>>, elems |-> <<>>, frees |-> 0]

Unused(h) == {p \in Ptrs : h[p].st = "unalloc"}

Min(S) == CHOOSE x \in S : \A y \in S : x <= y

\* crate::malloc(n): a fresh address, or null. Null is what a failed allocation
\* returns and what an allocator may return for a request of 0 bytes.
Malloc(h, n) == {NULL} \cup (IF Unused(h) = {} THEN {} ELSE {Min(Unused(h))})

Ev(e, a) == [ev |-> e, arg |-> a]

\* the free calls among a sequence of events
FreesOf(t) == SelectSeq(t, LAMBDA e : e.ev = "free")

Op(o, i, s, l, p) == [op |-> o, id |-> i, src |-> s, len |-> l, ptr |-> p]

\* a variable that holds no record (not yet bound, or gone out of scope)
NoVla == [st |-> "none", ty |-> "u16", len |-> 0, ptr |-> NULL]
NoLk == [st |-> "none", kind |-> "i32", len |-> 0, ptr |-> NULL, drops |-> 0]

\* the variable a new record is bound to: the first one that holds none
\* (0 when all are taken)
NewVla == IF \A i \in VlaIds : vla[i].st = "alive" THEN 0
          ELSE Min({i \in VlaIds : vla[i].st # "alive"})
NewLk == IF \A i \in LkIds : lk[i].st = "alive" THEN 0
         ELSE Min({i \in LkIds : lk[i].st # "alive"})

Init ==
    /\ heap = [p \in Ptrs |-> EmptyBuf]
    /\ vla = [i \in VlaIds |-> NoVla]
    /\ lk = [i \in LkIds |-> NoLk]
    /\ lastOp = Op("init", 0, <<>>, 0, NULL)
    /\ trace = <<>>
    /\ status = "run"

\* crate::free(p): the buffer at p is released; the call is counted.
\* What a freed buffer holds is indeterminate; it is kept as nothing.
HeapFree(h, p) == [h EXCEPT ![p] = [st |-> "freed", data |-> <<>>, elems |-> <<>>, frees |-> @.frees + 1]]

\* slice::from_raw_parts(ptr, len): the len elements stored at ptr
\* (-1 stands for whatever lies beyond the stored elements).
RawParts(h, p, len) == [i \in 1..len |-> IF i <= Len(h[p].data) THEN h[p].data[i] ELSE -1]

\* ---------------------------------------------------------------- VarLenArray
\* from_parts with the test of len left out of its branch
TakesCopyNoLen(pnull, len) == ~pnull

\* from_parts, line 18: the branch that allocates and copies
TakesCopy(pnull, len) == ~pnull /\ len # 0

\* from_parts, lines 18-25: the (len, ptr) pair of the record returned
FromPartsRec(pnull, len, dst) ==
    IF TakesCopy(pnull, len) THEN [len |-> len, ptr |-> dst]
    ELSE [len |-> 0, ptr |-> NULL]

\* copy_nonoverlapping that copies one element too few
CopyShort(h, s, dst, len) ==
    [h EXCEPT ![dst] = [st |-> "live", data |-> SubSeq(s, 1, len - 1), elems |-> <<>>, frees |-> 0]]

\* ptr::copy_nonoverlapping(p, dst, len): the buffer at dst after the copy
CopyNonoverlapping(h, s, dst, len) ==
    [h EXCEPT ![dst] = [st |-> "live", data |-> SubSeq(s, 1, len), elems |-> <<>>, frees |-> 0]]

\* len(), is_empty()
VlaLen(r) == r.len
IsEmpty(r) == r.len = 0

\* impl Deref: the view of a record
Deref(h, r) ==
    IF r.len = 0 \/ r.ptr = NULL THEN <<>> ELSE RawParts(h, r.ptr, r.len)

\* from_parts(p, len) building variable id of element type ty from source s;
\* pnull says whether p is null. op, blen, bptr only label the operation.
FromParts(op, id, ty, pnull, s, blen, bptr) ==
    LET len == Len(s)
        bytes == len * SizeOf(ty)
    IN
    /\ status = "run"
    /\ id = NewVla
    /\ lastOp' = Op(op, id, s, blen, bptr)
    /\ UNCHANGED lk
    /\ IF TakesCopy(pnull, len)
       THEN \E dst \in Malloc(heap, bytes) :
              /\ trace' = <<Ev("malloc", bytes), Ev("copy", dst)>>
              /\ IF dst # NULL
                 THEN /\ heap' = CopyNonoverlapping(heap, s, dst, len)
                      /\ vla' = [vla EXCEPT ![id] = [st |-> "alive", ty |-> ty] @@ FromPartsRec(pnull, len, dst)]
                      /\ status' = "run"
                 ELSE IF bytes = 0
                 THEN \* a copy of zero bytes to null writes nothing
                      /\ heap' = heap
                      /\ vla' = [vla EXCEPT ![id] = [st |-> "alive", ty |-> ty] @@ FromPartsRec(pnull, len, dst)]
                      /\ status' = "run"
                 ELSE \* a copy of bytes > 0 to null is undefined: the process
                      \* faults, or the write goes unnoticed and the record is built
                      /\ heap' = heap
                      /\ \/ /\ status' = "segv"
                            /\ vla' = vla
                         \/ /\ status' = "run"
                            /\ vla' = [vla EXCEPT ![id] = [st |-> "alive", ty |-> ty] @@ FromPartsRec(pnull, len, dst)]
       ELSE /\ trace' = <<>>
            /\ heap' = heap
            /\ vla' = [vla EXCEPT ![id] = [st |-> "alive", ty |-> ty] @@ FromPartsRec(pnull, len, NULL)]
            /\ status' = "run"

\* from_slice(arr): arr.as_ptr() is never null
FromSlice(id, ty, s) == FromParts("from_slice", id, ty, FALSE, s, 0, NULL)

\* Default::default(): from_parts(ptr::null(), 0)
Default(id, ty) == FromParts("default", id, ty, TRUE, <<>>, 0, NULL)

\* Clone::clone(&self): from_slice(self), through Deref
Clone(src, id) ==
    /\ vla[src].st = "alive"
    /\ src # id
    /\ FromParts("clone", id, vla[src].ty, FALSE, Deref(heap, vla[src]), vla[src].len, vla[src].ptr)

\* Drop::drop(&mut self), lines 55-64: the record as the body leaves it
DropRec(r) == IF r.ptr = NULL THEN r ELSE [r EXCEPT !.ptr = NULL, !.len = 0]

\* Drop::drop: the events of the body
DropTrace(r) == IF r.ptr = NULL THEN <<>> ELSE <<Ev("free", r.ptr), Ev("reset", r.ptr)>>

\* the variable goes out of scope: Drop::drop runs once and the variable is gone
Drop(id) ==
    /\ status = "run"
    /\ vla[id].st = "alive"
    /\ lastOp' = Op("drop", id, <<>>, vla[id].len, vla[id].ptr)
    /\ trace' = DropTrace(vla[id])
    /\ heap' = IF vla[id].ptr = NULL THEN heap ELSE HeapFree(heap, vla[id].ptr)
    /\ vla' = [vla EXCEPT ![id] = NoVla]
    /\ UNCHANGED <<lk, status>>

NextOwning ==
    \/ \E id \in VlaIds, ty \in ElemTypes : \E s \in Sources(ty) : FromSlice(id, ty, s)
    \/ \E id \in VlaIds, ty \in ElemTypes : Default(id, ty)
    \/ \E src \in VlaIds, id \in VlaIds : Clone(src, id)
    \/ \E id \in VlaIds : Drop(id)

\* ---------------------------------------------------------------- LeakyVarLenArray
\* A record of plain elements arrives with its buffer (a deep copy of s);
\* no record is produced when the allocation fails.
LeakyFromSlice(id, s) ==
    /\ status = "run"
    /\ id = NewLk
    /\ lastOp' = Op("leaky_from", id, s, 0, NULL)
    /\ UNCHANGED <<vla, status>>
    /\ IF Len(s) = 0
       THEN /\ trace' = <<>>
            /\ heap' = heap
            /\ lk' = [lk EXCEPT ![id] = [NoLk EXCEPT !.st = "alive"]]
       ELSE \E dst \in Malloc(heap, 4 * Len(s)) :
              /\ dst # NULL
              /\ trace' = <<Ev("malloc", 4 * Len(s)), Ev("copy", dst)>>
              /\ heap' = CopyNonoverlapping(heap, s, dst, Len(s))
              /\ lk' = [lk EXCEPT ![id] = [NoLk EXCEPT !.st = "alive", !.len = Len(s), !.ptr = dst]]

\* the addresses the next n successful allocations return, in order
RECURSIVE FreshPtrs(_, _)
FreshPtrs(S, n) == IF n = 0 \/ S = {} THEN <<>> ELSE <<Min(S)>> \o FreshPtrs(S \ {Min(S)}, n - 1)

\* A nested record arrives: an outer buffer of Len(lens) records of the given
\* kind, the i-th holding lens[i] plain elements in a buffer of its own, or
\* (0, null) when lens[i] = 0. No record is produced when an allocation fails.
LeakyNested(id, kind, lens) ==
    LET k == Len(lens)
        rank == [i \in 1..k |-> Cardinality({j \in 1..i : lens[j] > 0})]
        nz == Cardinality({j \in 1..k : lens[j] > 0})
        fresh == FreshPtrs(Unused(heap), nz + 1)
        outer == fresh[nz + 1]
        inner == [i \in 1..k |->
                    IF lens[i] > 0 THEN [len |-> lens[i], ptr |-> fresh[rank[i]]]
                    ELSE [len |-> 0, ptr |-> NULL]]
    IN
    /\ status = "run"
    /\ id = NewLk
    /\ k > 0
    /\ Len(fresh) = nz + 1
    /\ lastOp' = Op("leaky_nested", id, lens, 0, NULL)
    /\ trace' = [i \in 1..(nz + 1) |-> Ev("malloc", fresh[i])]
    /\ heap' = [p \in Ptrs |->
                  IF p = outer
                  THEN [st |-> "live", data |-> <<>>, elems |-> inner, frees |-> 0]
                  ELSE IF \E i \in 1..k : inner[i].ptr = p
                  THEN LET i == CHOOSE j \in 1..k : inner[j].ptr = p
                       IN [st |-> "live", data |-> [j \in 1..lens[i] |-> 1], elems |-> <<>>, frees |-> 0]
                  ELSE heap[p]]
    /\ lk' = [lk EXCEPT ![id] = [st |-> "alive", kind |-> kind, len |-> k, ptr |-> outer, drops |-> 0]]
    /\ UNCHANGED <<vla, status>>

\* derive(Copy, Clone): a bit-copy of the (len, ptr) pair
LeakyCopy(src, id) ==
    /\ status = "run"
    /\ lk[src].st = "alive"
    /\ id = NewLk
    /\ lastOp' = Op("leaky_copy", id, <<>>, lk[src].len, lk[src].ptr)
    /\ trace' = <<>>
    /\ lk' = [lk EXCEPT ![id] = [lk[src] EXCEPT !.drops = 0]]
    /\ UNCHANGED <<heap, vla, status>>

\* drop(), lines 204-210: ptr::drop_in_place on the elements i..n of the buffer
\* at p, each running VarLenArray's Drop::drop in place
RECURSIVE DropElems(_, _, _, _)
DropElems(h, p, i, n) ==
    IF i > n THEN [h |-> h, tr |-> <<>>]
    ELSE LET e == h[p].elems[i]
             h1 == IF e.ptr = NULL THEN h
                   ELSE [HeapFree(h, e.ptr) EXCEPT ![p].elems[i] = DropRec(e)]
             rest == DropElems(h1, p, i + 1, n)
         IN [h |-> rest.h, tr |-> <<Ev("drop_in_place", i - 1)>> \o DropTrace(e) \o rest.tr]

\* drop() that frees the buffer before it destroys the elements
LeakyDropBodyFreeFirst(h, r) ==
    LET d == IF NeedsDrop(r.kind) THEN DropElems(h, r.ptr, 1, r.len)
             ELSE [h |-> h, tr |-> <<>>]
    IN [h |-> HeapFree(d.h, r.ptr),
        tr |-> <<Ev("free", r.ptr)>> \o d.tr \o <<Ev("reset", r.ptr)>>]

\* drop(), lines 204-215: the heap and the events of the body on a record r
\* whose pointer is not null
LeakyDropBody(h, r) ==
    LET d == IF NeedsDrop(r.kind) THEN DropElems(h, r.ptr, 1, r.len)
             ELSE [h |-> h, tr |-> <<>>]
    IN [h |-> HeapFree(d.h, r.ptr),
        tr |-> d.tr \o <<Ev("free", r.ptr), Ev("reset", r.ptr)>>]

\* drop() that forgets to reset the pointer and the length
LeakyDropRecNoReset(r) == r

\* drop(), lines 199-216: the record as drop leaves it
LeakyDropRec(r) == IF r.ptr = NULL THEN r ELSE [r EXCEPT !.ptr = NULL, !.len = 0]

\* the lengths of the records a nested record holds (none for plain elements)
ElemLens(h, r) ==
    IF r.ptr = NULL THEN <<>>
    ELSE [i \in 1..Len(h[r.ptr].elems) |-> h[r.ptr].elems[i].len]

\* LeakyVarLenArray::drop(&mut self)
LeakyDrop(id) ==
    LET r == lk[id] IN
    /\ status = "run"
    /\ r.st = "alive"
    /\ lastOp' = Op("leaky_drop", id, ElemLens(heap, r), r.len, r.ptr)
    /\ lk' = [lk EXCEPT ![id] = [LeakyDropRec(r) EXCEPT !.drops = IF @ < 2 THEN @ + 1 ELSE 2]]
    /\ UNCHANGED vla
    /\ IF r.ptr = NULL
       THEN /\ trace' = <<>>
            /\ UNCHANGED <<heap, status>>
       ELSE IF heap[r.ptr].st = "live"
       THEN /\ heap' = LeakyDropBody(heap, r).h
            /\ trace' = LeakyDropBody(heap, r).tr
            /\ status' = "run"
       ELSE \* the buffer was freed through an alias: its elements are read after
            \* the free and it is freed again, which is undefined
            /\ heap' = HeapFree(heap, r.ptr)
            /\ trace' = <<Ev("free", r.ptr), Ev("reset", r.ptr)>>
            /\ status' = "ub"

NextLeaky ==
    \/ \E id \in LkIds : \E s \in LkSources : LeakyFromSlice(id, s)
    \/ \E id \in LkIds, kind \in {"leaky", "owning"} : \E lens \in SeqsUpTo(0..MaxInner, MaxLen) :
          LeakyNested(id, kind, lens)
    \/ \E src \in LkIds, id \in LkIds : LeakyCopy(src, id)
    \/ \E id \in LkIds : LeakyDrop(id)

Next == NextOwning \/ NextLeaky

Spec == Init /\ [][Next]_vars

SpecOwning == Init /\ [][NextOwning]_vars

SpecLeaky == Init /\ [][NextLeaky]_vars

\* ================================================================ claims
\* the record the last operation built or ran on
Subject == IF lastOp.op \in {"from_slice", "default", "clone", "drop"}
           THEN vla[lastOp.id] ELSE NoVla

Built == lastOp.op \in {"from_slice", "default", "clone"} /\ vla[lastOp.id].st = "alive"

AliveVla == {i \in VlaIds : vla[i].st = "alive"}
AliveLk == {i \in LkIds : lk[i].st = "alive"}

\* C1: destroying an owning record calls free exactly once if the record is
\* non-empty and never if it is empty; no buffer is freed twice; and once every
\* owning record is destroyed no buffer remains allocated.
C1_ExactlyOnceFree ==
    /\ lastOp.op = "drop" =>
          Len(FreesOf(trace)) = (IF lastOp.len # 0 THEN 1 ELSE 0)
    /\ \A p \in Ptrs : heap[p].frees <= 1
    /\ AliveVla = {} => \A p \in Ptrs : heap[p].st # "live"

\* C3: the record from_slice(s) builds has len() = Len(s) and a view equal to s.
C3_RoundTrip ==
    (lastOp.op = "from_slice" /\ Built) =>
        /\ VlaLen(Subject) = Len(lastOp.src)
        /\ Deref(heap, Subject) = lastOp.src

\* C4: from_slice of the empty slice and default() both build the record
\* (0, null), which is_empty and views as the empty sequence, and neither
\* calls the allocator.
C4_EmptyNormalization ==
    (lastOp.op = "default" \/ (lastOp.op = "from_slice" /\ lastOp.src = <<>>)) =>
        /\ Built
        /\ Subject.len = 0
        /\ Subject.ptr = NULL
        /\ IsEmpty(Subject)
        /\ Deref(heap, Subject) = <<>>
        /\ trace = <<>>

C4_Witness ==
    /\ lastOp.op = "from_slice" /\ lastOp.src = <<>> /\ Built
    /\ \E j \in AliveVla : j # lastOp.id /\ vla[j].len = 0

\* C5: the clone of a populated record views equal to the original and points
\* to a newly allocated buffer of its own; no two owning records ever share a
\* buffer, and the buffers of the records that remain stay allocated.
C5_CloneIndependence ==
    /\ (lastOp.op = "clone" /\ lastOp.len > 0 /\ lastOp.ptr # NULL /\ status = "run") =>
          /\ Built
          /\ Deref(heap, Subject) = lastOp.src
          /\ Subject.ptr # NULL
          /\ Subject.ptr # lastOp.ptr
    /\ \A i, j \in AliveVla : (i # j /\ vla[i].ptr # NULL) => vla[i].ptr # vla[j].ptr
    /\ \A i \in AliveVla : vla[i].ptr # NULL => heap[vla[i].ptr].st = "live"

\* C7: a construction from a non-empty source never copies into a failed
\* allocation, and a record it builds has len = Len(s), a non-null pointer and
\* every element copied.
C7_AllOrNothing ==
    (lastOp.op \in {"from_slice", "clone"} /\ Len(lastOp.src) > 0) =>
        /\ \A k \in 1..Len(trace) : trace[k] # Ev("copy", NULL)
        /\ Built =>
              /\ Subject.len = Len(lastOp.src)
              /\ Subject.ptr # NULL
              /\ heap[Subject.ptr].st = "live"
              /\ heap[Subject.ptr].data = lastOp.src

\* the records held as elements of live buffers
ElemRecs == UNION {{heap[p].elems[i] : i \in 1..Len(heap[p].elems)} : p \in Ptrs}

\* C8: every record of either variant has len = 0 exactly when its pointer is
\* null, and len() is the number of elements of its view.
C8_LenZeroIffNull ==
    /\ \A i \in AliveVla :
          /\ vla[i].len = 0 <=> vla[i].ptr = NULL
          /\ VlaLen(vla[i]) = Len(Deref(heap, vla[i]))
    /\ \A i \in AliveLk : lk[i].len = 0 <=> lk[i].ptr = NULL
    /\ \A e \in ElemRecs : e.len = 0 <=> e.ptr = NULL

\* the leaky record the last drop() ran on, as drop left it
Dropped == lk[lastOp.id]

\* C2: drop on a LeakyVarLenArray<LeakyVarLenArray<i32>> that holds k inner
\* arrays, each of nonzero length, calls free exactly k + 1 times.
C2_RecursiveTeardown ==
    (/\ lastOp.op = "leaky_drop"
     /\ Dropped.kind = "leaky"
     /\ lastOp.ptr # NULL
     /\ status = "run"
     /\ \A i \in 1..Len(lastOp.src) : lastOp.src[i] > 0) =>
        Len(FreesOf(trace)) = lastOp.len + 1

\* C6: drop on a populated record of plain elements calls free once and leaves
\* (0, null); drop on a record whose pointer is null calls nothing and leaves
\* the record as it was.
C6_IdempotentDrop ==
    (lastOp.op = "leaky_drop" /\ ~NeedsDrop(Dropped.kind)) =>
        /\ lastOp.ptr # NULL =>
              /\ FreesOf(trace) = <<Ev("free", lastOp.ptr)>>
              /\ Dropped.len = 0
              /\ Dropped.ptr = NULL
        /\ lastOp.ptr = NULL =>
              /\ trace = <<>>
              /\ Dropped.len = lastOp.len
              /\ Dropped.ptr = NULL

\* the second drop in a row on the one record there is, whose buffer the first
\* drop freed
C6_Witness ==
    /\ lastOp.op = "leaky_drop"
    /\ lastOp.ptr = NULL
    /\ Dropped.kind = "i32"
    /\ Dropped.drops = 2
    /\ AliveLk = {lastOp.id}
    /\ \E p \in Ptrs : heap[p].st = "freed" /\ heap[p].frees = 1

\* the positions of an event in a sequence of events
Pos(t, e) == {k \in 1..Len(t) : t[k] = e}

DropInPlaceOf(t) == SelectSeq(t, LAMBDA e : e.ev = "drop_in_place")

\* C10: drop on a populated record destroys the elements 0 .. len-1 in that
\* order when the element type needs it, frees the record's buffer after the
\* last of them, and resets the record after the free; when the element type
\* needs no destruction it frees the buffer and resets, nothing else.
C10_DropOrder ==
    (lastOp.op = "leaky_drop" /\ lastOp.ptr # NULL /\ status = "run") =>
        LET own == lastOp.ptr
            dips == DropInPlaceOf(trace)
        IN IF NeedsDrop(Dropped.kind)
           THEN /\ dips = [i \in 1..lastOp.len |-> Ev("drop_in_place", i - 1)]
                /\ Cardinality(Pos(trace, Ev("free", own))) = 1
                /\ Cardinality(Pos(trace, Ev("reset", own))) = 1
                /\ \A k \in 1..Len(trace), f \in Pos(trace, Ev("free", own)) :
                      trace[k].ev = "drop_in_place" => k < f
                /\ \A f \in Pos(trace, Ev("free", own)), r \in Pos(trace, Ev("reset", own)) :
                      f < r
                \* every element's own buffer is freed inside its own step
                /\ Len(FreesOf(trace)) =
                      1 + Cardinality({i \in 1..Len(lastOp.src) : lastOp.src[i] > 0})
           ELSE trace = <<Ev("free", own), Ev("reset", own)>>

C10_Witness ==
    /\ lastOp.op = "leaky_drop"
    /\ lastOp.ptr # NULL
    /\ status = "run"
    /\ Dropped.kind = "owning"
    /\ lastOp.len = 2
    /\ Len(FreesOf(trace)) = 2

\* how many elements the buffer at p holds
BufLen(h, p) == Len(h[p].data) + Len(h[p].elems)

C9_States ==
    /\ \A i \in AliveVla :
          /\ vla[i].len = 0 => vla[i].ptr = NULL
          /\ vla[i].ptr # NULL =>
                /\ vla[i].len > 0
                /\ heap[vla[i].ptr].st = "live"
                /\ BufLen(heap, vla[i].ptr) = vla[i].len
    /\ \A i \in AliveLk :
          \/ lk[i].len = 0 /\ lk[i].ptr = NULL
          \/ /\ lk[i].len > 0
             /\ lk[i].ptr # NULL
             /\ \/ /\ heap[lk[i].ptr].st = "live"
                   /\ BufLen(heap, lk[i].ptr) = lk[i].len
                \/ /\ heap[lk[i].ptr].st = "freed"
                   /\ \E j \in AliveLk : j # i /\ lk[j].drops > 0 /\ lk[j].kind = lk[i].kind
    /\ \A e \in ElemRecs :
          /\ e.len = 0 <=> e.ptr = NULL
          /\ e.ptr # NULL => heap[e.ptr].st = "live" /\ BufLen(heap, e.ptr) = e.len

\* C9 amended, the steps: a record gets a non-null pointer only by being
\* built or bit-copied, and loses it only by drop.
C9_Steps ==
    /\ \A i \in LkIds :
          /\ (lk[i].ptr = NULL /\ lk'[i].ptr # NULL) =>
                lastOp'.id = i /\ lastOp'.op \in {"leaky_from", "leaky_nested", "leaky_copy"}
          /\ (lk[i].ptr # NULL /\ lk'[i].ptr = NULL) =>
                lastOp'.id = i /\ lastOp'.op = "leaky_drop"
    /\ \A i \in VlaIds :
          /\ (vla[i].ptr = NULL /\ vla'[i].ptr # NULL) =>
                lastOp'.id = i /\ lastOp'.op \in {"from_slice", "clone"}
          /\ (vla[i].ptr # NULL /\ vla'[i].ptr = NULL) =>
                lastOp'.id = i /\ lastOp'.op = "drop"

====
